---- MODULE Spec2Model ----
(***************************************************************************)
(* Model of the Go package "assertions" (assertions.go) together with the  *)
(* TesterTB test double of its test suite.                                 *)
(*                                                                         *)
(* One test handle is alive at a time.  A call of an assertion operation   *)
(* is one action, except SlicesMatch whose differ nonMatchingSlices is     *)
(* stepped one outer-loop iteration at a time so that every access of the  *)
(* claimed-marker array is visible.  Go indices are 0-based, the model's   *)
(* are 1-based: index i of the model is index i-1 of the code.             *)
(***************************************************************************)
EXTENDS Integers, Sequences, FiniteSets, TLC

VARIABLES pc, op, args, tb, outcome,
          visited, idx, nonMatchedA, nonMatchedB, accessed, differRan, ret

vars == <<pc, op, args, tb, outcome,
          visited, idx, nonMatchedA, nonMatchedB, accessed, differRan, ret>>

(* ------------------------------ bounds -------------------------------- *)
MaxLen == 3
MaxKey == 2
MaxErrId == 2

(* ------------------------------ values -------------------------------- *)
\* a float64 NaN, coded as an integer no other element uses
NaN == -1
\* the zero value of the element type
Zero == 0

Elems == {NaN, Zero, 1}
OrdVals == {0, 1, 2}
Keys == 1..MaxKey

\* reflect.DeepEqual on element values: structural equality, except that a
\* NaN is equal to nothing, itself included
DeepEqual(x, y) == x = y /\ x # NaN /\ y # NaN

RECURSIVE SeqsUpTo(_, _)
SeqsUpTo(S, n) ==
    IF n = 0 THEN {<<>>}
    ELSE LET shorter == SeqsUpTo(S, n - 1)
         IN shorter \cup {Append(s, x) : s \in shorter, x \in S}

\* a slice value: nil or a (possibly empty) sequence of elements
NilSlice == [isNil |-> TRUE, elems |-> <<>>]
MkSlice(s) == [isNil |-> FALSE, elems |-> s]
len(s) == Len(s.elems)

\* the sequences TestSlicesMatchAny passes
TestSlices == {<<1, 2, 3, 4, 5>>, <<5, 1, 3, 4, 2>>, <<5, 4, 1, 4, 2>>, <<5, 1, 4, 2>>}
Slices == {NilSlice} \cup {MkSlice(s) : s \in SeqsUpTo(Elems, MaxLen) \cup TestSlices}

\* a map value: nil or a finite function from keys to elements
PartialFns == UNION {[D -> Elems] : D \in SUBSET Keys}
NilMap == [isNil |-> TRUE, m |-> <<>>]
MkMap(f) == [isNil |-> FALSE, m |-> f]
Maps == {NilMap} \cup {MkMap(f) : f \in PartialFns}

\* an error value: the nil interface, or a dynamic type with a value.
\* "*errorString" is what errors.New and fmt.Errorf return (a pointer,
\* compared by identity); "sliceErr" is an error whose dynamic type is a
\* slice type, which Go cannot compare.
ErrTypes == {"*errorString", "sliceErr"}
Msgs == {"error", "matching"}
NilErr == [isNil |-> TRUE, typ |-> "nil", id |-> 0, msg |-> ""]
Errs == {NilErr} \cup [isNil : {FALSE}, typ : ErrTypes, id : 1..MaxErrId, msg : Msgs]

\* a callback handed to Panics / NotPanics: it returns or it panics with a
\* payload
NilAny == "nil"
Payloads == {"boom", "PanicNilError"}
Fns == {[panics |-> FALSE, payload |-> NilAny]}
          \cup {[panics |-> TRUE, payload |-> p] : p \in Payloads}

\* debug.Stack() never returns an empty trace
DebugStack == "goroutine 1 [running]"

(* --------------------------- the test handle --------------------------- *)
\* "TesterTB" is the test double, whose FailNow returns; "T" is a handle
\* whose FailNow ends the calling goroutine (testing.T)
Kinds == {"TesterTB", "T"}

NewTester(kind) == [kind |-> kind, events |-> <<>>, failed |-> FALSE, aborted |-> FALSE]

Logf(h, format, a) ==
    [h EXCEPT !.events = Append(@, [m |-> "Logf", fmt |-> format, args |-> a])]

FailNow(h) ==
    [h EXCEPT !.events = Append(@, [m |-> "FailNow", fmt |-> "", args |-> <<>>]),
              !.failed = TRUE,
              !.aborted = (h.kind = "T")]

Errorf(h, format, a) ==
    [h EXCEPT !.events = Append(@, [m |-> "Errorf", fmt |-> format, args |-> a]),
              !.failed = TRUE]

ErrorfNowSoft(h, format, a) == Errorf(h, format, a)

ErrorfNow(h, format, a) == FailNow(Logf(h, format, a))

\* how a call ends once the handle is in state h
Ret(h) == [tb |-> h, outcome |-> IF h.aborted THEN "aborted" ELSE "returned"]
Raise(h) == [tb |-> h, outcome |-> "panicked"]

(* ------------------------- the simple assertions ----------------------- *)
NoError(h, input) ==
    IF ~input.isNil
    THEN Ret(ErrorfNow(h, "Unexpected error occurred", <<input>>))
    ELSE Ret(h)

Error(h, input) ==
    IF input.isNil
    THEN Ret(ErrorfNow(h, "expected error did not occur", <<>>))
    ELSE Ret(h)

\* Go's == on two interface values: "eq", "ne", or "panic" when both hold
\* the same dynamic type and that type is not comparable
IfaceCompare(x, y) ==
    IF x.isNil /\ y.isNil THEN "eq"
    ELSE IF x.isNil \/ y.isNil THEN "ne"
    ELSE IF x.typ # y.typ THEN "ne"
    ELSE IF x.typ = "sliceErr" THEN "panic"
    ELSE IF x = y THEN "eq" ELSE "ne"

ErrorsMatch(h, expected, input) ==
    LET c == IfaceCompare(expected, input)
    IN IF c = "panic" THEN Raise(h)
       ELSE IF c = "ne"
            THEN IF expected.isNil \/ input.isNil
                 THEN Ret(ErrorfNow(h, "Errors do not match", <<expected, input>>))
                 ELSE IF expected.msg # input.msg
                      THEN Ret(ErrorfNow(h, "Errors do not match", <<expected, input>>))
                      ELSE Ret(h)
            ELSE Ret(h)

Equal(h, expected, input) ==
    IF ~DeepEqual(expected, input)
    THEN Ret(ErrorfNow(h, "Values are not equal", <<expected, input>>))
    ELSE Ret(h)

Within(h, minT, maxT, input) ==
    IF input < minT \/ input > maxT
    THEN Ret(ErrorfNow(h, "value is not in the expected range", <<minT, maxT, input>>))
    ELSE Ret(h)

(* ------------------------------ panic capture -------------------------- *)
\* recover() inside the deferred function: the payload of the panic in
\* flight, nil when there is none
Recover(fn) == IF fn.panics THEN fn.payload ELSE NilAny

panicHandlerNoReset(fn) ==
    [panicked |-> TRUE, msg |-> Recover(fn), stack |-> DebugStack]

panicHandler(fn) ==
    LET panicked0 == TRUE
        \* fn() ; panicked = false   -- the assignment is skipped when fn panics
        panicked1 == IF fn.panics THEN panicked0 ELSE FALSE
    IN [panicked |-> panicked1,
        msg |-> Recover(fn),
        stack |-> IF panicked1 THEN DebugStack ELSE ""]

Panics(h, fn) ==
    LET r == panicHandler(fn)
    IN IF ~r.panicked
       THEN Ret(ErrorfNow(h, "function did not panic", <<fn, r.msg>>))
       ELSE Ret(h)

NotPanics(h, fn) ==
    LET r == panicHandler(fn)
    IN IF r.panicked
       THEN Ret(ErrorfNow(h, "function panic", <<fn, r.msg, r.stack>>))
       ELSE Ret(h)

(* ------------------------------ map differ ----------------------------- *)
HasKey(mp, k) == k \in DOMAIN mp.m
\* b[k]: the value at k, the zero value when the key is absent
Lookup(mp, k) == IF HasKey(mp, k) THEN mp.m[k] ELSE Zero
\* m[k] = v on a finite function
Store(f, k, v) == [x \in (DOMAIN f) \cup {k} |-> IF x = k THEN v ELSE f[x]]
EmptyFn == [x \in {} |-> Zero]

\* first loop: for ak, av := range a
RECURSIVE RangeA(_, _, _, _)
RangeA(todo, a, b, out) ==
    IF todo = {} THEN out
    ELSE LET ak == CHOOSE k \in todo : TRUE
             av == a.m[ak]
             bv == Lookup(b, ak)
             aout1 == IF ~HasKey(b, ak) THEN Store(out.aout, ak, av) ELSE out.aout
             differ == ~DeepEqual(av, bv)
             aout2 == IF differ THEN Store(aout1, ak, av) ELSE aout1
             bout2 == IF differ THEN Store(out.bout, ak, bv) ELSE out.bout
         IN RangeA(todo \ {ak}, a, b, [aout |-> aout2, bout |-> bout2])

\* second loop: for bk, bv := range b
RECURSIVE RangeB(_, _, _, _)
RangeB(todo, a, b, out) ==
    IF todo = {} THEN out
    ELSE LET bk == CHOOSE k \in todo : TRUE
             bv == b.m[bk]
         IN RangeB(todo \ {bk}, a, b,
                   IF ~HasKey(a, bk)
                   THEN [out EXCEPT !.bout = Store(out.bout, bk, bv)]
                   ELSE out)

nonMatchingMapsFirstLoopOnly(a, b) ==
    RangeA(DOMAIN a.m, a, b, [aout |-> EmptyFn, bout |-> EmptyFn])

nonMatchingMaps(a, b) ==
    RangeB(DOMAIN b.m, a, b,
           RangeA(DOMAIN a.m, a, b, [aout |-> EmptyFn, bout |-> EmptyFn]))

MapsMatch(h, expected, input) ==
    LET r == nonMatchingMaps(expected, input)
    IN IF Cardinality(DOMAIN r.aout) > 0 \/ Cardinality(DOMAIN r.bout) > 0
       THEN Ret(ErrorfNow(h, "Elements do not match", <<r.aout, r.bout>>))
       ELSE Ret(h)

(* ----------------------------- slice differ ---------------------------- *)
\* visited := make([]bool, n)
MakeVisited(n) == [k \in 1..n |-> FALSE]

ClearNothing(v) == v

\* clear(visited)
Clear(v) == [k \in DOMAIN v |-> FALSE]

\* The inner loop: scan s from position i for the first element that is not
\* claimed and deep-equal to x.  visited[i] is read before anything else, so
\* a position past the end of the marker array is an index-out-of-range
\* panic.  touched is the set of marker positions the scan read or wrote.
RECURSIVE ScanIgnoringVisited(_, _, _, _)
ScanIgnoringVisited(x, s, vis, i) ==
    IF i > Len(s) THEN [found |-> FALSE, at |-> 0, oob |-> FALSE, touched |-> 1..(i - 1)]
    ELSE IF i > Len(vis) THEN [found |-> FALSE, at |-> 0, oob |-> TRUE, touched |-> 1..i]
    ELSE IF DeepEqual(x, s[i])
         THEN [found |-> TRUE, at |-> i, oob |-> FALSE, touched |-> 1..i]
         ELSE ScanIgnoringVisited(x, s, vis, i + 1)

RECURSIVE Scan(_, _, _, _)
Scan(x, s, vis, i) ==
    IF i > Len(s) THEN [found |-> FALSE, at |-> 0, oob |-> FALSE, touched |-> 1..(i - 1)]
    ELSE IF i > Len(vis) THEN [found |-> FALSE, at |-> 0, oob |-> TRUE, touched |-> 1..i]
    ELSE IF ~vis[i] /\ DeepEqual(x, s[i])
         THEN [found |-> TRUE, at |-> i, oob |-> FALSE, touched |-> 1..i]
         ELSE Scan(x, s, vis, i + 1)

LenMismatchNever(expected, input) == FALSE

LenMismatchNilAware(expected, input) ==
    len(expected) # len(input) \/ expected.isNil # input.isNil

\* the guard of SlicesMatch: len(expected) != len(input)
LenMismatch(expected, input) == len(expected) # len(input)

(* -------------------------------- state -------------------------------- *)
NoArgs == <<>>
NoRet == <<>>

Idle(kind) ==
    /\ pc = "idle"
    /\ op = "none"
    /\ args = NoArgs
    /\ tb = NewTester(kind)
    /\ outcome = "none"
    /\ visited = <<>>
    /\ idx = 0
    /\ nonMatchedA = <<>>
    /\ nonMatchedB = <<>>
    /\ accessed = {}
    /\ differRan = FALSE
    /\ ret = NoRet

Init == \E kind \in Kinds : Idle(kind)

sliceLocals == <<visited, idx, nonMatchedA, nonMatchedB, accessed, differRan>>

\* a call that runs to its end in one step
Finish(name, a, r, result) ==
    /\ pc' = "done"
    /\ op' = name
    /\ args' = a
    /\ tb' = r.tb
    /\ outcome' = r.outcome
    /\ ret' = result
    /\ UNCHANGED sliceLocals

CallNoError ==
    /\ pc = "idle"
    /\ \E input \in Errs :
        Finish("NoError", [input |-> input], NoError(tb, input), NoRet)

CallError ==
    /\ pc = "idle"
    /\ \E input \in Errs :
        Finish("Error", [input |-> input], Error(tb, input), NoRet)

CallErrorsMatch ==
    /\ pc = "idle"
    /\ \E expected \in Errs, input \in Errs :
        Finish("ErrorsMatch", [expected |-> expected, input |-> input],
               ErrorsMatch(tb, expected, input), NoRet)

CallEqual ==
    /\ pc = "idle"
    /\ \E expected \in Elems, input \in Elems :
        Finish("Equal", [expected |-> expected, input |-> input],
               Equal(tb, expected, input), NoRet)

CallWithin ==
    /\ pc = "idle"
    /\ \E minT \in OrdVals, maxT \in OrdVals, input \in OrdVals :
        Finish("Within", [minT |-> minT, maxT |-> maxT, input |-> input],
               Within(tb, minT, maxT, input), NoRet)

CallPanics ==
    /\ pc = "idle"
    /\ \E fn \in Fns :
        Finish("Panics", [fn |-> fn], Panics(tb, fn), panicHandler(fn))

CallNotPanics ==
    /\ pc = "idle"
    /\ \E fn \in Fns :
        Finish("NotPanics", [fn |-> fn], NotPanics(tb, fn), panicHandler(fn))

CallMapsMatch ==
    /\ pc = "idle"
    /\ \E expected \in Maps, input \in Maps :
        Finish("MapsMatch", [expected |-> expected, input |-> input],
               MapsMatch(tb, expected, input), nonMatchingMaps(expected, input))

\* SlicesMatch up to the call of nonMatchingSlices and its allocations
CallSlicesMatch ==
    /\ pc = "idle"
    /\ \E expected \in Slices, input \in Slices :
        /\ op' = "SlicesMatch"
        /\ args' = [expected |-> expected, input |-> input]
        /\ ret' = NoRet
        /\ IF LenMismatch(expected, input)
           THEN LET r == Ret(ErrorfNow(tb,
                             "Elements do not match, slices have different lengths",
                             <<len(expected), len(input)>>))
                IN /\ pc' = "done"
                   /\ tb' = r.tb
                   /\ outcome' = r.outcome
                   /\ UNCHANGED sliceLocals
           ELSE /\ pc' = "pass1"
                /\ differRan' = TRUE
                /\ nonMatchedA' = <<>>
                /\ nonMatchedB' = <<>>
                /\ visited' = MakeVisited(len(expected))
                /\ idx' = 1
                /\ accessed' = {}
                /\ UNCHANGED <<tb, outcome>>

\* one iteration of "for _, elementA := range a"
Pass1Step ==
    /\ pc = "pass1"
    /\ idx <= len(args.expected)
    /\ LET elementA == args.expected.elems[idx]
           r == Scan(elementA, args.input.elems, visited, 1)
       IN /\ accessed' = r.touched
          /\ IF r.oob
             THEN /\ pc' = "done"
                  /\ outcome' = "panicked"
                  /\ UNCHANGED <<visited, idx, nonMatchedA>>
             ELSE /\ visited' = IF r.found THEN [visited EXCEPT ![r.at] = TRUE] ELSE visited
                  /\ nonMatchedA' = IF r.found THEN nonMatchedA
                                    ELSE Append(nonMatchedA, elementA)
                  /\ idx' = idx + 1
                  /\ UNCHANGED <<pc, outcome>>
    /\ UNCHANGED <<op, args, tb, nonMatchedB, differRan, ret>>

\* clear(visited) between the two loops
ClearVisited ==
    /\ pc = "pass1"
    /\ idx > len(args.expected)
    /\ visited' = Clear(visited)
    /\ accessed' = DOMAIN visited
    /\ pc' = "pass2"
    /\ idx' = 1
    /\ UNCHANGED <<op, args, tb, outcome, nonMatchedA, nonMatchedB, differRan, ret>>

\* one iteration of "for _, elementB := range b"
Pass2Step ==
    /\ pc = "pass2"
    /\ idx <= len(args.input)
    /\ LET elementB == args.input.elems[idx]
           r == Scan(elementB, args.expected.elems, visited, 1)
       IN /\ accessed' = r.touched
          /\ IF r.oob
             THEN /\ pc' = "done"
                  /\ outcome' = "panicked"
                  /\ UNCHANGED <<visited, idx, nonMatchedB>>
             ELSE /\ visited' = IF r.found THEN [visited EXCEPT ![r.at] = TRUE] ELSE visited
                  /\ nonMatchedB' = IF r.found THEN nonMatchedB
                                    ELSE Append(nonMatchedB, elementB)
                  /\ idx' = idx + 1
                  /\ UNCHANGED <<pc, outcome>>
    /\ UNCHANGED <<op, args, tb, nonMatchedA, differRan, ret>>

\* nonMatchingSlices returns; SlicesMatch inspects the two residues
SlicesCheck ==
    /\ pc = "pass2"
    /\ idx > len(args.input)
    /\ LET r == IF Len(nonMatchedA) > 0 \/ Len(nonMatchedB) > 0
                THEN Ret(ErrorfNow(tb, "Elements do not match", <<nonMatchedA, nonMatchedB>>))
                ELSE Ret(tb)
       IN /\ tb' = r.tb
          /\ outcome' = r.outcome
    /\ pc' = "done"
    /\ accessed' = {}
    /\ UNCHANGED <<op, args, visited, idx, nonMatchedA, nonMatchedB, differRan, ret>>

\* the test ends; the next one gets a handle of its own
NextTest ==
    /\ pc = "done"
    /\ pc' = "idle"
    /\ op' = "none"
    /\ args' = NoArgs
    /\ \E kind \in Kinds : tb' = NewTester(kind)
    /\ outcome' = "none"
    /\ visited' = <<>>
    /\ idx' = 0
    /\ nonMatchedA' = <<>>
    /\ nonMatchedB' = <<>>
    /\ accessed' = {}
    /\ differRan' = FALSE
    /\ ret' = NoRet

Next ==
    \/ CallNoError
    \/ CallError
    \/ CallErrorsMatch
    \/ CallEqual
    \/ CallWithin
    \/ CallPanics
    \/ CallNotPanics
    \/ CallMapsMatch
    \/ CallSlicesMatch
    \/ Pass1Step
    \/ ClearVisited
    \/ Pass2Step
    \/ SlicesCheck
    \/ NextTest

Spec == Init /\ [][Next]_vars

(* ------------------------------ properties ----------------------------- *)
Methods == [k \in 1..Len(tb.events) |-> tb.events[k].m]
\* the call returned and the handle was never touched
Passed == outcome = "returned" /\ tb.events = <<>>
\* the call reported a failure: one Logf, then one FailNow
Failed == tb.failed /\ Methods = <<"Logf", "FailNow">>
Done(name) == pc = "done" /\ op = name

Range(s) == {s[k] : k \in 1..Len(s)}
Count(s, x) == Cardinality({j \in 1..Len(s) : DeepEqual(s[j], x)})
EarlierCount(s, i) == Cardinality({j \in 1..(i - 1) : DeepEqual(s[j], s[i])})
\* the subsequence of s at the positions in P, in order
RECURSIVE Pick(_, _, _)
Pick(s, P, i) ==
    IF i > Len(s) THEN <<>>
    ELSE IF i \in P THEN <<s[i]>> \o Pick(s, P, i + 1)
    ELSE Pick(s, P, i + 1)
\* multiset difference a - b under deep equality, in a's order: a copy of a
\* value survives when b has no counterpart left for it
BagDiff(a, b) ==
    Pick(a, {i \in 1..Len(a) : EarlierCount(a, i) >= Count(b, a[i])}, 1)

\* how often the value x occurs in s
Occurrences(s, x) == Cardinality({j \in 1..Len(s) : s[j] = x})
IsPermutation(a, p) ==
    /\ Len(a) = Len(p)
    /\ \A x \in Range(a) \cup Range(p) : Occurrences(a, x) = Occurrences(p, x)
SelfEqual(s) == \A k \in 1..Len(s) : DeepEqual(s[k], s[k])

\* C1: when SlicesMatch has compared two sequences of equal length, the
\* residue of expected is the multiset difference expected - input, the
\* residue of input is input - expected, each in its original order, the
\* call fails exactly when a residue is non-empty and then logs the two
\* residues; [1,2,3,4,5] against [5,4,1,4,2] fails with [3] and [4].
C1_BagResidues ==
    (Done("SlicesMatch") /\ len(args.expected) = len(args.input)) =>
        /\ outcome # "panicked"
        /\ nonMatchedA = BagDiff(args.expected.elems, args.input.elems)
        /\ nonMatchedB = BagDiff(args.input.elems, args.expected.elems)
        /\ Failed <=> (nonMatchedA # <<>> \/ nonMatchedB # <<>>)
        /\ Passed <=> ~Failed
        /\ Failed => tb.events[1].args = <<nonMatchedA, nonMatchedB>>
        /\ (args.expected.elems = <<1, 2, 3, 4, 5>> /\ args.input.elems = <<5, 4, 1, 4, 2>>) =>
               (Failed /\ nonMatchedA = <<3>> /\ nonMatchedB = <<4>>)

C1_Witness ==
    /\ Done("SlicesMatch")
    /\ args.expected.elems = <<1, 2, 3, 4, 5>>
    /\ args.input.elems = <<5, 4, 1, 4, 2>>
    /\ nonMatchedA = <<3>>
    /\ nonMatchedB = <<4>>
    /\ Failed

\* C2 as stated: SlicesMatch of a sequence and any reordering of it passes,
\* whatever the elements are.
C2_AnyPermutationPasses ==
    (Done("SlicesMatch") /\ IsPermutation(args.expected.elems, args.input.elems)) => Passed

\* C2: SlicesMatch of a sequence and any reordering of it passes, duplicates
\* included, provided every element is deep-equal to itself (no NaN).
C2_SelfEqualPermutationPasses ==
    (/\ Done("SlicesMatch")
     /\ IsPermutation(args.expected.elems, args.input.elems)
     /\ SelfEqual(args.expected.elems)) => Passed

C2_Witness ==
    /\ Done("SlicesMatch")
    /\ args.expected.elems = <<1, 0, 1>>
    /\ args.input.elems = <<1, 1, 0>>
    /\ Passed

\* C3: SlicesMatch of two sequences of different lengths fails, logs the two
\* lengths and never runs nonMatchingSlices; a nil and an empty sequence
\* have the same length and match.
C3_LengthGuard ==
    /\ (Done("SlicesMatch") /\ len(args.expected) # len(args.input)) =>
           /\ Failed
           /\ tb.events[1].fmt = "Elements do not match, slices have different lengths"
           /\ tb.events[1].args = <<len(args.expected), len(args.input)>>
           /\ ~differRan
    /\ (/\ Done("SlicesMatch")
        /\ args.expected.isNil # args.input.isNil
        /\ len(args.expected) = 0
        /\ len(args.input) = 0) => Passed

C3_Witness ==
    /\ Done("SlicesMatch")
    /\ len(args.expected) = 2
    /\ len(args.input) = 3
    /\ Failed
    /\ ~differRan

SameEntries(a, b) ==
    /\ DOMAIN a.m = DOMAIN b.m
    /\ \A k \in DOMAIN a.m : DeepEqual(a.m[k], b.m[k])
NilAndEmpty(a, b) == a.isNil # b.isNil /\ DOMAIN a.m = {} /\ DOMAIN b.m = {}
MapSelfEqual(a) == \A k \in DOMAIN a.m : DeepEqual(a.m[k], a.m[k])

\* C4 as stated: MapsMatch passes exactly when the key sets are equal and
\* the values deep-equal at every key, and fails otherwise; it passes for
\* every mapping against itself, and for nil against empty.
C4_EveryMapMatchesItself ==
    Done("MapsMatch") =>
        /\ Passed <=> SameEntries(args.expected, args.input)
        /\ Failed <=> ~Passed
        /\ (args.expected = args.input) => Passed
        /\ NilAndEmpty(args.expected, args.input) => Passed

\* C4: MapsMatch passes exactly when the key sets are equal and the values
\* deep-equal at every key, and fails otherwise (a non-empty residue on
\* either side); it passes for a mapping against itself when every value of
\* the mapping is deep-equal to itself, and for nil against empty in either
\* order.
C4_MapsMatchIff ==
    Done("MapsMatch") =>
        /\ Passed <=> SameEntries(args.expected, args.input)
        /\ Failed <=> ~Passed
        /\ Failed <=> (DOMAIN ret.aout # {} \/ DOMAIN ret.bout # {})
        /\ (args.expected = args.input /\ MapSelfEqual(args.expected)) => Passed
        /\ NilAndEmpty(args.expected, args.input) => Passed

C4_Witness ==
    /\ Done("MapsMatch")
    /\ args.expected = args.input
    /\ DOMAIN args.expected.m = Keys
    /\ Passed

\* the entries of a that b lacks or holds with a different value
KeyedDiff(a, b) ==
    [k \in {x \in DOMAIN a.m : x \notin DOMAIN b.m \/ ~DeepEqual(a.m[x], b.m[x])} |-> a.m[k]]

\* C5: nonMatchingMaps(a, b) returns as residueA the entries of a whose key
\* b lacks or whose value differs from b's, and as residueB the entries of b
\* whose key a lacks or whose value differs from a's; a key absent from b is
\* never in residueB.
C5_KeyedDiff ==
    Done("MapsMatch") =>
        /\ ret.aout = KeyedDiff(args.expected, args.input)
        /\ ret.bout = KeyedDiff(args.input, args.expected)
        /\ DOMAIN ret.bout \subseteq DOMAIN args.input.m

\* C6: at every moment the handle has seen either no call at all or one Logf
\* followed by one FailNow and nothing else; it is marked failed exactly in
\* the second case, a call that ends has passed or failed in this sense, and
\* a FailNow that returns changes none of it.
C6_HandleProtocol ==
    /\ Methods \in {<<>>, <<"Logf", "FailNow">>}
    /\ tb.failed <=> Methods # <<>>
    /\ (tb.events # <<>>) => pc = "done"
    /\ (pc = "done" /\ outcome = "returned" /\ tb.kind = "TesterTB") => (Passed \/ Failed)
    /\ (outcome = "aborted") => (Failed /\ tb.kind = "T")

C6_Witness ==
    /\ pc = "done"
    /\ op = "ErrorsMatch"
    /\ tb.kind = "TesterTB"
    /\ outcome = "returned"
    /\ Methods = <<"Logf", "FailNow">>
    /\ args.expected.isNil
    /\ ~args.input.isNil

\* C7: no assertion operation ends in a panic that reaches its caller.
C7_NoFault == outcome # "panicked"

ErrorsAgree(x, y) == (x.isNil /\ y.isNil) \/ (~x.isNil /\ ~y.isNil /\ x.msg = y.msg)

\* C8: ErrorsMatch passes exactly when both errors are nil or both are
\* non-nil with the same message text, and fails otherwise.
C8_ErrorsMatchIff ==
    Done("ErrorsMatch") =>
        /\ Passed <=> ErrorsAgree(args.expected, args.input)
        /\ Failed <=> ~ErrorsAgree(args.expected, args.input)

\* C9: panicHandler reports panicked with the payload and a non-empty stack
\* exactly when fn panics, and not panicked with a nil payload and an empty
\* stack exactly when fn returns; Panics fails exactly when fn returns and
\* NotPanics exactly when fn panics.
C9_PanicCapture ==
    (pc = "done" /\ op \in {"Panics", "NotPanics"}) =>
        /\ ret.panicked <=> args.fn.panics
        /\ args.fn.panics => (ret.msg = args.fn.payload /\ ret.stack # "")
        /\ ~args.fn.panics => (ret.msg = NilAny /\ ret.stack = "")
        /\ (op = "Panics") => (Failed <=> ~args.fn.panics)
        /\ (op = "NotPanics") => (Failed <=> args.fn.panics)
        /\ Passed <=> ~Failed

C9_Witness ==
    /\ Done("NotPanics")
    /\ args.fn.panics
    /\ ret.panicked
    /\ ret.msg = "boom"
    /\ ret.stack # ""
    /\ Failed

\* C10: while nonMatchingSlices runs under SlicesMatch the marker array has
\* len(expected) = len(input) markers, every marker position read or written
\* lies inside it, no access panics, and the second pass starts with every
\* marker unclaimed.
C10_MarkersInBounds ==
    /\ accessed \subseteq DOMAIN visited
    /\ (op = "SlicesMatch") => outcome # "panicked"
    /\ (pc \in {"pass1", "pass2"}) =>
           /\ Len(visited) = len(args.expected)
           /\ Len(visited) = len(args.input)
    /\ (pc = "pass2" /\ idx = 1) => \A k \in DOMAIN visited : ~visited[k]

C10_Witness ==
    /\ pc = "pass2"
    /\ idx > 1
    /\ Len(visited) >= 2
    /\ Len(visited) \in accessed
    /\ \E k \in DOMAIN visited : visited[k]

====
